---- MODULE Spec2Model ----
(***************************************************************************)
(* The movement-and-collision state machine of bevy-snake (src/game.rs).   *)
(*                                                                         *)
(* The world is a set of entities, each with a Position component and any  *)
(* of the marker components SnakeHead, SnakeSegment, Food.  The systems of *)
(* game.rs are the actions.  Spawn and despawn go through Commands: a      *)
(* system only queues them, and the queue is applied to the world when the *)
(* stage that holds the systems ends, so within one tick no system sees an *)
(* entity another system of the same tick spawned or misses one it         *)
(* despawned.  Events are counted: an EventReader's iter() takes every     *)
(* pending event at once.                                                  *)
(***************************************************************************)
EXTENDS Integers, Sequences, FiniteSets, TLC

\* ------------------------------------------------------------------ bounds

\* Movement stages run in one behaviour.
MaxTicks == 5

\* food_spawner's random draw is kept to the cells at most this far
\* (Manhattan distance) from the head.
FoodReach == 1

\* Foods on one cell in the initial states of SpecStacked.
MaxStack == 2

\* ------------------------------------------------------- program constants

ARENA_WIDTH == 10

ARENA_HEIGHT == 10

\* `x as u32 >= bound` for an i32 x and a u32 bound below 2^31: a negative x
\* becomes x + 2^32, which is at least 2^31.
AsU32AtLeast(x, bound) == IF x < 0 THEN TRUE ELSE x >= bound

Directions == {"Left", "Up", "Right", "Down"}

KeyCodes == {"Left", "Right", "Up", "Down"}

\* opposite with the arm of Down copied from the arm of Up.
opposite_down_down(d) ==
  CASE d = "Left" -> "Right"
    [] d = "Up" -> "Down"
    [] d = "Right" -> "Left"
    [] d = "Down" -> "Down"

\* Direction::opposite
opposite(d) ==
  CASE d = "Left" -> "Right"
    [] d = "Up" -> "Down"
    [] d = "Right" -> "Left"
    [] d = "Down" -> "Up"

\* Position { x, y }
Pos(px, py) == [x |-> px, y |-> py]

\* Option<Position>: None is the empty sequence, Some(p) is <<p>>.
None == <<>>

Some(p) == <<p>>

VARIABLES
  segments,            \* SnakeSegments.0: the chain, a sequence of entities
  last_tail_position,  \* LastTailPosition.0: Option<Position>
  position,            \* the Position component: live entity -> Position
  snake_head,          \* the SnakeHead component: entity -> its two directions
  snake_segment,       \* the entities with the SnakeSegment marker
  food,                \* the entities with the Food marker
  commands,            \* the queued Commands of the running stage
  growth_events,       \* GrowthEvents sent and not yet read
  game_over_events,    \* GameOverEvents sent and not yet read
  segment_positions,   \* snake_movement's snapshot of the chain's positions
  did_reset,           \* whether game_over's last run respawned the snake
  panicked,            \* an unwrap() failed: the program is gone
  pc,                  \* the stage that runs next
  ticks                \* Movement stages run so far

vars == <<segments, last_tail_position, position, snake_head, snake_segment,
          food, commands, growth_events, game_over_events, segment_positions,
          did_reset, panicked, pc, ticks>>

\* ------------------------------------------------------------------ helpers

Range(s) == {s[i] : i \in 1..Len(s)}

Min(S) == CHOOSE m \in S : \A n \in S : m <= n

Max(S) == CHOOSE m \in S : \A n \in S : m >= n

\* The entities alive in the world.
Live == DOMAIN position

\* Entities a queue of commands is about to spawn.
Reserved(cmds) == {cmds[i].entity : i \in {j \in 1..Len(cmds) : cmds[j].op = "spawn"}}

\* The id Commands::spawn reserves: one no live, reserved or chained entity has.
NewEntity(used) == Min((0..Cardinality(used)) \ used)

\* A set of entities in the order a query yields them.
RECURSIVE QueryOrder(_)
QueryOrder(S) ==
  IF S = {} THEN <<>> ELSE LET e == Min(S) IN <<e>> \o QueryOrder(S \ {e})

DespawnCmd(e) == [op |-> "despawn", entity |-> e, kind |-> "none", position |-> Pos(0, 0)]

SpawnCmd(e, k, p) == [op |-> "spawn", entity |-> e, kind |-> k, position |-> p]

\* The world after one queued command.  A despawn of an entity that is gone
\* does nothing.
ApplyOne(w, c) ==
  IF c.op = "despawn"
  THEN [position |-> [e \in (DOMAIN w.position) \ {c.entity} |-> w.position[e]],
        snake_head |-> [e \in (DOMAIN w.snake_head) \ {c.entity} |-> w.snake_head[e]],
        snake_segment |-> w.snake_segment \ {c.entity},
        food |-> w.food \ {c.entity}]
  ELSE [position |-> [e \in (DOMAIN w.position) \cup {c.entity} |->
                        IF e = c.entity THEN c.position ELSE w.position[e]],
        snake_head |-> IF c.kind = "head"
                       THEN [e \in (DOMAIN w.snake_head) \cup {c.entity} |->
                               IF e = c.entity
                               THEN [input_direction |-> "Up", movement_direction |-> "Up"]
                               ELSE w.snake_head[e]]
                       ELSE w.snake_head,
        snake_segment |-> IF c.kind \in {"head", "segment"}
                          THEN w.snake_segment \cup {c.entity}
                          ELSE w.snake_segment,
        food |-> IF c.kind = "food" THEN w.food \cup {c.entity} ELSE w.food]

\* The world after a whole queue, first command first.
RECURSIVE ApplyCommands(_, _)
ApplyCommands(w, cmds) ==
  IF cmds = <<>> THEN w ELSE ApplyCommands(ApplyOne(w, Head(cmds)), Tail(cmds))

World == [position |-> position, snake_head |-> snake_head,
          snake_segment |-> snake_segment, food |-> food]

EmptyWorld == [position |-> <<>>, snake_head |-> <<>>, snake_segment |-> {}, food |-> {}]

\* ----------------------------------------------------------------- systems

\* spawn_snake with the body segment ahead of the head, not behind it.
spawn_snake_segment_ahead(used) ==
  LET h == NewEntity(used)
      s == NewEntity(used \cup {h})
  IN [chain |-> <<h, s>>,
      cmds |-> <<SpawnCmd(h, "head", Pos(3, 3)), SpawnCmd(s, "segment", Pos(3, 4))>>]

\* spawn_snake: the two spawn commands and the chain they make.
spawn_snake(used) ==
  LET h == NewEntity(used)
      s == NewEntity(used \cup {h})
  IN [chain |-> <<h, s>>,
      cmds |-> <<SpawnCmd(h, "head", Pos(3, 3)), SpawnCmd(s, "segment", Pos(3, 2))>>]

Init ==
  LET snake == spawn_snake({})
      w == ApplyCommands(EmptyWorld, snake.cmds)
  IN /\ segments = snake.chain
     /\ last_tail_position = None
     /\ position = w.position
     /\ snake_head = w.snake_head
     /\ snake_segment = w.snake_segment
     /\ food = w.food
     /\ commands = <<>>
     /\ growth_events = 0
     /\ game_over_events = 0
     /\ segment_positions = <<>>
     /\ did_reset = FALSE
     /\ panicked = FALSE
     /\ pc = "Input"
     /\ ticks = 0

\* The keys tried in the order of the Direction enum: Left, Up, Right, Down.
new_direction_enum_order(pressed, head) ==
  IF "Left" \in pressed THEN "Left"
  ELSE IF "Up" \in pressed THEN "Up"
  ELSE IF "Right" \in pressed THEN "Right"
  ELSE IF "Down" \in pressed THEN "Down"
  ELSE head.input_direction

\* The candidate direction of snake_movement_input: the first held key in the
\* order Left, Right, Up, Down, else the current input_direction.
new_direction(pressed, head) ==
  IF "Left" \in pressed THEN "Left"
  ELSE IF "Right" \in pressed THEN "Right"
  ELSE IF "Up" \in pressed THEN "Up"
  ELSE IF "Down" \in pressed THEN "Down"
  ELSE head.input_direction

\* snake_movement_input without the reversal test.
input_head_unchecked(pressed, head) ==
  [head EXCEPT !.input_direction = new_direction(pressed, head)]

\* The head after snake_movement_input.
input_head(pressed, head) ==
  IF new_direction(pressed, head) # opposite(head.movement_direction)
  THEN [head EXCEPT !.input_direction = new_direction(pressed, head)]
  ELSE head

snake_movement_input(pressed) ==
  /\ pc = "Input"
  /\ ~panicked
  /\ IF DOMAIN snake_head = {}
     THEN UNCHANGED snake_head
     ELSE \E h \in DOMAIN snake_head :
            snake_head' = [snake_head EXCEPT ![h] = input_head(pressed, snake_head[h])]
  /\ UNCHANGED <<segments, last_tail_position, position, snake_segment, food,
                 commands, growth_events, game_over_events, segment_positions,
                 did_reset, panicked, pc, ticks>>

\* One unit step of the head along its input_direction.
step(p, d) ==
  CASE d = "Left" -> Pos(p.x - 1, p.y)
    [] d = "Up" -> Pos(p.x, p.y + 1)
    [] d = "Right" -> Pos(p.x + 1, p.y)
    [] d = "Down" -> Pos(p.x, p.y - 1)

\* The bounds test with the x < 0 test lost and x compared signed.
out_of_bounds_signed_x(p) ==
  \/ p.x >= ARENA_WIDTH
  \/ p.y < 0
  \/ AsU32AtLeast(p.y, ARENA_HEIGHT)

\* The bounds test with the y < 0 test lost and y compared signed.
out_of_bounds_signed_y(p) ==
  \/ p.x < 0
  \/ AsU32AtLeast(p.x, ARENA_WIDTH)
  \/ p.y >= ARENA_HEIGHT

\* The bounds test of snake_movement on the stepped head.
out_of_bounds(p) ==
  \/ p.x < 0
  \/ AsU32AtLeast(p.x, ARENA_WIDTH)
  \/ p.y < 0
  \/ AsU32AtLeast(p.y, ARENA_HEIGHT)

\* A collision test that lets the head into the cell the tail is leaving.
contains_but_tail(snapshot, p) == \E i \in 1..(Len(snapshot) - 1) : snapshot[i] = p

\* segment_positions.contains(&head_position)
contains(snapshot, p) == \E i \in 1..Len(snapshot) : snapshot[i] = p

\* The GameOverEvents snake_movement sends: one for leaving the arena and one
\* for stepping on a cell of the snapshot.
game_over_sends(snapshot, p) ==
  (IF out_of_bounds(p) THEN 1 ELSE 0) + (IF contains(snapshot, p) THEN 1 ELSE 0)

\* The chain's positions in chain order, before anything moves.
snapshot_of(chain, pos) == [i \in 1..Len(chain) |-> pos[chain[i]]]

\* A shift done in place, first segment first: each segment reads the
\* position its predecessor has already moved to.
shifted_in_place(pos, chain, snapshot, head_entity, head_position) ==
  [e \in DOMAIN pos |->
     IF e = head_entity \/ \E j \in 2..Len(chain) : chain[j] = e
     THEN head_position
     ELSE pos[e]]

\* The Position component after the step of the head and the shift of the
\* body.  The shift zips the snapshot with the chain less its first entry and
\* writes in chain order, so the last write to an entity stands.
shifted(pos, chain, snapshot, head_entity, head_position) ==
  [e \in DOMAIN pos |->
     LET at == {j \in 2..Len(chain) : chain[j] = e}
     IN IF at # {} THEN snapshot[Max(at) - 1]
        ELSE IF e = head_entity THEN head_position
        ELSE pos[e]]

\* The tail's position taken after the shift: the cell of the last but one.
last_after_shift(snapshot) ==
  IF Len(snapshot) < 2 THEN None ELSE Some(snapshot[Len(snapshot) - 1])

\* The snapshot read one past its end: get(len) in place of last().
last_past_end(snapshot) ==
  IF Len(snapshot) + 1 <= Len(snapshot) THEN Some(snapshot[Len(snapshot) + 1]) ELSE None

\* first() in place of last(): the head's position before the step.
first_copied(snapshot) ==
  IF Len(snapshot) = 0 THEN None ELSE Some(snapshot[1])

\* segment_positions.last().copied()
last_copied(snapshot) ==
  IF Len(snapshot) = 0 THEN None ELSE Some(snapshot[Len(snapshot)])

snake_movement ==
  /\ pc = "Input"
  /\ ~panicked
  /\ ticks < MaxTicks
  /\ pc' = "Eating"
  /\ ticks' = ticks + 1
  /\ IF DOMAIN snake_head = {}
     THEN UNCHANGED <<last_tail_position, position, snake_head, game_over_events,
                      segment_positions, panicked>>
     ELSE \E h \in DOMAIN snake_head :
            IF \E i \in 1..Len(segments) : segments[i] \notin Live
            THEN /\ panicked' = TRUE
                 /\ UNCHANGED <<last_tail_position, position, snake_head,
                                game_over_events, segment_positions>>
            ELSE LET snapshot == snapshot_of(segments, position)
                     head_position == step(position[h], snake_head[h].input_direction)
                 IN /\ segment_positions' = snapshot
                    /\ snake_head' = [snake_head EXCEPT ![h].movement_direction =
                                        snake_head[h].input_direction]
                    /\ game_over_events' =
                         game_over_events + game_over_sends(snapshot, head_position)
                    /\ position' = shifted(position, segments, snapshot, h, head_position)
                    /\ last_tail_position' = last_copied(snapshot)
                    /\ UNCHANGED panicked
  /\ UNCHANGED <<segments, snake_segment, food, commands, growth_events, did_reset>>

\* An eating test that compares the x coordinate alone.
eaten_same_column(head_position) == {f \in food : position[f].x = head_position.x}

\* The food entities snake_eating despawns: those on the head's cell.
eaten(head_position) == {f \in food : position[f] = head_position}

snake_eating ==
  /\ pc = "Eating"
  /\ ~panicked
  /\ pc' = "Growth"
  /\ IF DOMAIN snake_head = {}
     THEN UNCHANGED <<commands, growth_events>>
     ELSE \E h \in DOMAIN snake_head :
            LET gone == QueryOrder(eaten(position[h]))
            IN /\ commands' = commands \o [i \in 1..Len(gone) |-> DespawnCmd(gone[i])]
               /\ growth_events' = growth_events + Len(gone)
  /\ UNCHANGED <<segments, last_tail_position, position, snake_head, snake_segment,
                 food, game_over_events, segment_positions, did_reset, panicked, ticks>>

\* A reader that takes the first pending event and leaves the rest.
read_first(pending) == IF pending > 0 THEN pending - 1 ELSE 0

\* The events still pending after reader.iter(): the reader takes them all,
\* whatever the caller does with the iterator.
read_all(pending) == 0

\* snake_growth that spawns the segment and forgets to push it.
grown_not_pushed(chain, e) == chain

\* snake_growth that inserts the new entity right behind the head.
grown_behind_head(chain, e) == <<chain[1], e>> \o Tail(chain)

\* The chain after snake_growth pushed the entity it spawned.
grown(chain, e) == Append(chain, e)

snake_growth ==
  /\ pc = "Growth"
  /\ ~panicked
  /\ pc' = "GameOver"
  /\ growth_events' = read_all(growth_events)
  /\ IF growth_events = 0
     THEN UNCHANGED <<segments, commands, panicked>>
     ELSE IF last_tail_position = None
     THEN /\ panicked' = TRUE
          /\ UNCHANGED <<segments, commands>>
     ELSE LET e == NewEntity(Live \cup Reserved(commands) \cup Range(segments))
          IN /\ segments' = grown(segments, e)
             /\ commands' = Append(commands, SpawnCmd(e, "segment", last_tail_position[1]))
             /\ UNCHANGED panicked
  /\ UNCHANGED <<last_tail_position, position, snake_head, snake_segment, food,
                 game_over_events, segment_positions, did_reset, ticks>>

\* game_over that despawns the segments and leaves the food.
despawned_segments_only == QueryOrder(snake_segment)

\* game_over that despawns the food and leaves the segments.
despawned_food_only == QueryOrder(food)

\* The entities game_over despawns: every food, then every segment, alive
\* when it runs.
despawned == QueryOrder(food) \o QueryOrder(snake_segment)

\* game_over, and the end of the stage: the queue is applied to the world.
game_over ==
  /\ pc = "GameOver"
  /\ ~panicked
  /\ pc' = "Input"
  /\ game_over_events' = read_all(game_over_events)
  /\ did_reset' = (game_over_events > 0)
  /\ commands' = <<>>
  /\ LET snake == spawn_snake(Live \cup Reserved(commands) \cup Range(segments))
         queue == IF game_over_events > 0
                  THEN commands
                         \o [i \in 1..Len(despawned) |-> DespawnCmd(despawned[i])]
                         \o snake.cmds
                  ELSE commands
         w == ApplyCommands(World, queue)
     IN /\ segments' = IF game_over_events > 0 THEN snake.chain ELSE segments
        /\ position' = w.position
        /\ snake_head' = w.snake_head
        /\ snake_segment' = w.snake_segment
        /\ food' = w.food
  /\ UNCHANGED <<last_tail_position, growth_events, segment_positions, panicked, ticks>>

\* The cells food_spawner's draw can give.
Cells == {Pos(cx, cy) : cx \in 0..(ARENA_WIDTH - 1), cy \in 0..(ARENA_HEIGHT - 1)}

Abs(n) == IF n < 0 THEN -n ELSE n

Distance(p, q) == Abs(p.x - q.x) + Abs(p.y - q.y)

\* The draws the model follows: the cells near a head.
Draws == {c \in Cells : \E h \in DOMAIN snake_head : Distance(c, position[h]) <= FoodReach}

\* taken_positions without the segments.
taken_positions_food_only == {position[e] : e \in food}

\* taken_positions without the food.
taken_positions_segments_only == {position[e] : e \in snake_segment}

\* taken_positions of food_spawner: the cells of every food and every segment.
taken_positions == {position[e] : e \in food \cup snake_segment}

\* A loop that breaks with its first draw, taken or not.
retry_never(p) == FALSE

\* Whether food_spawner's loop goes round again after drawing p.
retry(p) == p \in taken_positions

\* food_spawner: the loop ends with the first draw that is not taken.
food_spawner(p) ==
  /\ pc = "Input"
  /\ ~panicked
  /\ ~retry(p)
  /\ LET e == NewEntity(Live \cup Range(segments))
         w == ApplyCommands(World, <<SpawnCmd(e, "food", p)>>)
     IN /\ position' = w.position
        /\ food' = w.food
  /\ UNCHANGED <<segments, last_tail_position, snake_head, snake_segment, commands,
                 growth_events, game_over_events, segment_positions, did_reset,
                 panicked, pc, ticks>>

\* food_spawner step by step.  It is invoked between ticks, whether or not a
\* food exists, and enters its loop.
food_spawner_begin ==
  /\ pc = "Input"
  /\ ~panicked
  /\ pc' = "FoodSpawner"
  /\ UNCHANGED <<segments, last_tail_position, position, snake_head, snake_segment,
                 food, commands, growth_events, game_over_events, segment_positions,
                 did_reset, panicked, ticks>>

\* One turn of the loop with draw p: a taken p changes nothing and the loop
\* goes round again, any other p is where the food is spawned.
food_spawner_draw(p) ==
  /\ pc = "FoodSpawner"
  /\ IF retry(p)
     THEN UNCHANGED vars
     ELSE LET e == NewEntity(Live \cup Range(segments))
              w == ApplyCommands(World, <<SpawnCmd(e, "food", p)>>)
          IN /\ position' = w.position
             /\ food' = w.food
             /\ pc' = "Input"
             /\ UNCHANGED <<segments, last_tail_position, snake_head, snake_segment,
                            commands, growth_events, game_over_events,
                            segment_positions, did_reset, panicked, ticks>>

\* The place of a cell in the arena read row by row from (0,0), and the cell
\* at a place.
Index(c) == c.y * ARENA_WIDTH + c.x

CellAt(k) == Pos(k % ARENA_WIDTH, k \div ARENA_WIDTH)

\* The cells no entity is on.
FreeCells == Cells \ {position[e] : e \in Live}

\* The cells from place k on, round the arena, up to the first free one.
RECURSIVE UpToFree(_)
UpToFree(k) ==
  IF CellAt(k) \in FreeCells THEN {CellAt(k)}
  ELSE {CellAt(k)} \cup UpToFree((k + 1) % (ARENA_WIDTH * ARENA_HEIGHT))

\* The draws SpecFill follows: a cell near the head for the first food; after
\* that the cells that follow the newest food's, up to the first free one;
\* any cell once none is free.
FillDraws ==
  IF food = {} THEN Draws
  ELSE IF FreeCells = {} THEN Cells
  ELSE UpToFree((Index(position[Max(food)]) + 1) % (ARENA_WIDTH * ARENA_HEIGHT))

\* food_spawner run again and again with no tick in between.
FillNext ==
  \/ food_spawner_begin
  \/ \E p \in FillDraws : food_spawner_draw(p)

\* The spawner is invoked again and again, and a draw that is not taken comes
\* up in the end whenever there is one.
SpecFill ==
  /\ Init
  /\ [][FillNext]_vars
  /\ WF_vars(food_spawner_begin)
  /\ WF_vars(\E p \in FillDraws : food_spawner_draw(p))

\* The external food-spawn policy: the spawner runs between ticks, when no
\* food is pending.
spawn_food == food = {} /\ \E p \in Draws : food_spawner(p)

\* One tick runs the stages in the order Input, Movement, Eating, Growth,
\* Game-Over; input capture may run any number of times before Movement.
Next ==
  \/ \E pressed \in SUBSET KeyCodes : snake_movement_input(pressed)
  \/ snake_movement
  \/ snake_eating
  \/ snake_growth
  \/ game_over
  \/ spawn_food

Spec == Init /\ [][Next]_vars

\* The spawn commands of n foods, all on cell p, for the entities from first on.
stacked_food(first, n, p) == [i \in 1..n |-> SpawnCmd(first + i - 1, "food", p)]

\* The start with up to MaxStack foods on the cell ahead of the head: the
\* foods snake_eating finds on the head's cell in one tick, one GrowthEvent
\* each.
InitStacked ==
  \E n \in 0..MaxStack :
    LET snake == spawn_snake({})
        w == ApplyCommands(EmptyWorld,
                           snake.cmds \o stacked_food(Len(snake.chain), n, Pos(3, 4)))
    IN /\ segments = snake.chain
       /\ last_tail_position = None
       /\ position = w.position
       /\ snake_head = w.snake_head
       /\ snake_segment = w.snake_segment
       /\ food = w.food
       /\ commands = <<>>
       /\ growth_events = 0
       /\ game_over_events = 0
       /\ segment_positions = <<>>
       /\ did_reset = FALSE
       /\ panicked = FALSE
       /\ pc = "Input"
       /\ ticks = 0

SpecStacked == InitStacked /\ [][Next]_vars

TypeOK ==
  /\ pc \in {"Input", "Eating", "Growth", "GameOver", "FoodSpawner"}
  /\ ticks \in 0..MaxTicks
  /\ food \subseteq Live
  /\ snake_segment \subseteq Live
  /\ DOMAIN snake_head \subseteq Live
  /\ growth_events \in Nat
  /\ game_over_events \in 0..2

\* --------------------------------------------------------------- properties

\* The head entity: the one the single-head queries of the systems yield.
TheHead == CHOOSE h \in DOMAIN snake_head : TRUE

HasHead == DOMAIN snake_head # {}

InArena(p) == 0 <= p.x /\ p.x < ARENA_WIDTH /\ 0 <= p.y /\ p.y < ARENA_HEIGHT

\* The steps of one tick, told by the stage that runs and the one that follows.
MovementStep == pc = "Input" /\ pc' = "Eating"

EatingStep == pc = "Eating" /\ pc' = "Growth"

GrowthStep == pc = "Growth" /\ pc' = "GameOver"

GameOverStep == pc = "GameOver" /\ pc' = "Input"

\* C1: in every reachable state, so after input capture has run any number of
\* times with any held keys, the head's input_direction is not the opposite of
\* its movement_direction.
C1_NoReversal ==
  \A h \in DOMAIN snake_head :
    snake_head[h].input_direction # opposite(snake_head[h].movement_direction)

\* Input capture has turned the head since its last move.
C1_Witness ==
  /\ pc = "Input"
  /\ ticks > 0
  /\ HasHead
  /\ snake_head[TheHead].input_direction # snake_head[TheHead].movement_direction

\* C2: the Movement stage raises a GameOverEvent if and only if the head's
\* position after its step is out of bounds or equals a position some chain
\* member had before the step.
C2_GameOverIff ==
  [][(MovementStep /\ HasHead) =>
       LET new == position'[TheHead]
       IN (game_over_events' > game_over_events) <=>
            \/ new.x < 0
            \/ new.x >= ARENA_WIDTH
            \/ new.y < 0
            \/ new.y >= ARENA_HEIGHT
            \/ \E i \in 1..Len(segments) : position[segments[i]] = new]_vars

\* The head was at (0,3), moved Left, and a GameOverEvent is pending.
C2_Witness ==
  /\ pc = "Eating"
  /\ HasHead
  /\ segment_positions # <<>>
  /\ segment_positions[1] = Pos(0, 3)
  /\ position[TheHead] = Pos(-1, 3)
  /\ game_over_events > 0

\* The head stepped, in bounds, into the cell the tail had before the step and
\* into no other segment's.
IntoTailCell ==
  /\ MovementStep
  /\ HasHead
  /\ InArena(position'[TheHead])
  /\ Len(segments) >= 2
  /\ position'[TheHead] = position[segments[Len(segments)]]
  /\ \A i \in 1..(Len(segments) - 1) : position[segments[i]] # position'[TheHead]

\* C3 as stated: a head stepping into the cell the tail is about to leave
\* raises no GameOverEvent.
C3_AsStated == [][IntoTailCell => game_over_events' = game_over_events]_vars

\* C3: a head stepping, in bounds, into the cell the tail had before the step
\* raises exactly one GameOverEvent, though the tail leaves that cell in the
\* same step: the collision test reads the snapshot taken before the step.
C3_TailCellCollides ==
  [][IntoTailCell => game_over_events' = game_over_events + 1]_vars

\* The head is in bounds on the cell the tail has just left, and a
\* GameOverEvent is pending.
C3_Witness ==
  /\ pc = "Eating"
  /\ HasHead
  /\ Len(segment_positions) >= 2
  /\ InArena(position[TheHead])
  /\ position[TheHead] = segment_positions[Len(segment_positions)]
  /\ position[segments[Len(segments)]] # position[TheHead]
  /\ game_over_events = 1

\* C4: after a Movement stage with no collision, segment i >= 1 of the chain
\* is where segment i-1 was before the movement, and the head is one unit
\* from its old position along input_direction.
C4_Follow ==
  [][(MovementStep /\ HasHead /\ game_over_events' = game_over_events) =>
       LET old == position[segments[1]]
           new == position'[segments[1]]
           d == snake_head[TheHead].input_direction
       IN /\ segments[1] = TheHead
          /\ \A i \in 2..Len(segments) : position'[segments[i]] = position[segments[i - 1]]
          /\ new.x - old.x = (IF d = "Right" THEN 1 ELSE IF d = "Left" THEN -1 ELSE 0)
          /\ new.y - old.y = (IF d = "Up" THEN 1 ELSE IF d = "Down" THEN -1 ELSE 0)]_vars

\* A chain of three or more has moved without collision.
C4_Witness ==
  /\ pc = "Eating"
  /\ game_over_events = 0
  /\ Len(segments) >= 3
  /\ Len(segment_positions) = Len(segments)
  /\ position[segments[3]] = segment_positions[2]

\* C5: the chain grows by one for the growth signal the Growth stage consumes,
\* a game-over reset sets its length to 2, and no other step changes it.
C5_ChainLength ==
  [][IF GrowthStep THEN Len(segments') = Len(segments) + growth_events
     ELSE IF GameOverStep /\ game_over_events > 0 THEN Len(segments') = 2
     ELSE Len(segments') = Len(segments)]_vars

\* A chain that had grown to three or more was reset to two.
C5_Witness ==
  /\ pc = "Input"
  /\ did_reset
  /\ Len(segment_positions) >= 3
  /\ Len(segments) = 2

\* The spawn commands a step has added to the queue.
Added == {commands'[i] : i \in (Len(commands) + 1)..Len(commands')}

\* C6: every Movement records the tail's position before the shift as
\* LastTailPosition; a segment the Growth stage appends is the chain's last
\* element and is spawned at that position.
C6_GrowthAtOldTail ==
  [][/\ (MovementStep /\ HasHead) =>
          last_tail_position' = Some(position[segments[Len(segments)]])
     /\ (GrowthStep /\ segments' # segments) =>
          /\ Len(segments') = Len(segments) + 1
          /\ \A i \in 1..Len(segments) : segments'[i] = segments[i]
          /\ segments'[Len(segments')] \notin Live \cup Range(segments)
          /\ Added = {SpawnCmd(segments'[Len(segments')], "segment",
                               segment_positions[Len(segment_positions)])}
     /\ (GameOverStep /\ game_over_events = 0 /\ Len(segments) > Len(segment_positions)) =>
          /\ segments[Len(segments)] \in snake_segment'
          /\ position'[segments[Len(segments)]] = segment_positions[Len(segment_positions)]]_vars

\* The tick ended without a reset and with a new tail, alive on the cell the
\* old tail had before the movement.
C6_Witness ==
  /\ pc = "Input"
  /\ ~did_reset
  /\ Len(segments) = Len(segment_positions) + 1
  /\ segments[Len(segments)] \in snake_segment
  /\ position[segments[Len(segments)]] = segment_positions[Len(segment_positions)]

\* C7: after a reset the chain has two entries, the head at (3,3) with both
\* directions Up and one segment at (3,2); no food is left and every segment
\* entity is in the chain.
C7_Reset ==
  [][(GameOverStep /\ game_over_events > 0) =>
       /\ Len(segments') = 2
       /\ segments'[1] # segments'[2]
       /\ DOMAIN snake_head' = {segments'[1]}
       /\ snake_head'[segments'[1]] = [input_direction |-> "Up", movement_direction |-> "Up"]
       /\ position'[segments'[1]] = Pos(3, 3)
       /\ position'[segments'[2]] = Pos(3, 2)
       /\ food' = {}
       /\ snake_segment' = {segments'[1], segments'[2]}
       /\ DOMAIN position' = {segments'[1], segments'[2]}]_vars

\* A reset has just rebuilt the snake.
C7_Witness ==
  /\ pc = "Input"
  /\ did_reset
  /\ Len(segments) = 2
  /\ position[segments[1]] = Pos(3, 3)
  /\ position[segments[2]] = Pos(3, 2)
  /\ food = {}

\* C8: at the end of a tick every segment and every food is inside the arena;
\* only the head is ever outside it, and only inside a tick that has a
\* GameOverEvent pending.
C8_InArena ==
  \A e \in snake_segment \cup food :
    ~InArena(position[e]) =>
      /\ pc # "Input"
      /\ game_over_events > 0
      /\ e \in DOMAIN snake_head

\* A tick in which the head of a two-long snake left the arena has ended.
C8_Witness ==
  /\ pc = "Input"
  /\ did_reset
  /\ Len(segment_positions) = 2
  /\ \A e \in snake_segment \cup food : InArena(position[e])

\* C9: the Eating stage queues the despawn of exactly the foods on the head's
\* cell and raises one GrowthEvent for each; the other foods stay, and the
\* eaten ones are gone when the tick ends.
C9_Eating ==
  [][/\ (EatingStep /\ HasHead) =>
          LET hit == {f \in food : position[f] = position[TheHead]}
          IN /\ Added = {DespawnCmd(f) : f \in hit}
             /\ Len(commands') = Len(commands) + Cardinality(hit)
             /\ growth_events' = growth_events + Cardinality(hit)
             /\ food' = food
     /\ (GameOverStep /\ game_over_events = 0 /\ HasHead) =>
          food' = {f \in food : position[f] # position[TheHead]}]_vars

\* The head is on a food's cell: its despawn is queued and one GrowthEvent is
\* pending.
C9_Witness ==
  /\ pc = "Growth"
  /\ HasHead
  /\ growth_events = 1
  /\ \E f \in food : position[f] = position[TheHead] /\ commands = <<DespawnCmd(f)>>

\* C10: at every tick boundary the chain has no duplicates, its entries are
\* exactly the live segment entities, and the one head is its first entry; no
\* lookup has failed.
C10_ChainConsistent ==
  /\ ~panicked
  /\ pc = "Input" =>
       /\ \A i, j \in 1..Len(segments) : segments[i] = segments[j] => i = j
       /\ Range(segments) \subseteq Live
       /\ snake_segment = Range(segments)
       /\ Len(segments) >= 1
       /\ DOMAIN snake_head = {segments[1]}

\* A tick has ended with a chain grown to four.
C10_Witness ==
  /\ pc = "Input"
  /\ ticks > 0
  /\ Len(segments) >= 4
  /\ snake_segment = Range(segments)

\* C11: opposite is an involution without a fixed point: for each of the four
\* directions d, opposite(opposite(d)) = d and opposite(d) # d.
C11_OppositeInvolution ==
  \A d \in Directions \cup {snake_head[h].movement_direction : h \in DOMAIN snake_head} :
    opposite(opposite(d)) = d /\ opposite(d) # d

\* The head has moved Down, the direction whose opposite is Up, and may not
\* turn back Up.
C11_Witness ==
  /\ HasHead
  /\ snake_head[TheHead].movement_direction = "Down"
  /\ opposite(snake_head[TheHead].movement_direction) = "Up"
  /\ opposite("Up") = snake_head[TheHead].movement_direction

\* C12: whenever the Growth stage is about to consume a GrowthEvent,
\* LastTailPosition is Some, and the unwrap of snake_growth has never failed.
C12_LastTailIsSome ==
  /\ (pc = "Growth" /\ growth_events > 0) => last_tail_position # None
  /\ (pc = "GameOver" /\ Len(segments) > Len(segment_positions)) => ~panicked

\* The first growth after the start: a GrowthEvent is pending in the first
\* tick.
C12_Witness ==
  /\ pc = "Growth"
  /\ growth_events > 0
  /\ ticks = 1
  /\ last_tail_position = Some(Pos(3, 2))

\* The keys in the order input capture tries them.
KeyOrder == <<"Left", "Right", "Up", "Down">>

\* The first held key in that order, or the direction given when none is held.
FirstHeld(pressed, otherwise) ==
  IF pressed \cap KeyCodes = {} THEN otherwise
  ELSE KeyOrder[Min({i \in 1..Len(KeyOrder) : KeyOrder[i] \in pressed})]

\* The head input capture must leave, for the keys held.
Captured(pressed, head) ==
  [input_direction |->
     IF FirstHeld(pressed, head.input_direction) = opposite(head.movement_direction)
     THEN head.input_direction
     ELSE FirstHeld(pressed, head.input_direction),
   movement_direction |-> head.movement_direction]

\* A step of input capture: between ticks, and not the food spawner.
InputStep == pc = "Input" /\ pc' = "Input" /\ food' = food

\* C13: for every set of held keys input capture leaves the head with the
\* first held key in the order Left, Right, Up, Down as its input_direction,
\* unless that key is the opposite of movement_direction, and then with its
\* old input_direction; it changes nothing but the head's input_direction.
C13_InputCapture ==
  /\ [](\A h \in DOMAIN snake_head : \A pressed \in SUBSET KeyCodes :
          input_head(pressed, snake_head[h]) = Captured(pressed, snake_head[h]))
  /\ [][InputStep =>
          /\ UNCHANGED <<segments, last_tail_position, position, snake_segment, food,
                         commands, growth_events, game_over_events, panicked, ticks>>
          /\ DOMAIN snake_head' = DOMAIN snake_head
          /\ \E pressed \in SUBSET KeyCodes : \A h \in DOMAIN snake_head :
               snake_head'[h] = Captured(pressed, snake_head[h])]_vars

\* The head moved Left and input capture has it turn Down: with Right the
\* first held key, rejected, the head would keep Left.
C13_Witness ==
  /\ pc = "Input"
  /\ HasHead
  /\ snake_head[TheHead].movement_direction = "Left"
  /\ snake_head[TheHead].input_direction = "Down"
  /\ Captured({"Right", "Up"}, snake_head[TheHead]).input_direction = "Down"
  /\ Captured({"Down"}, snake_head[TheHead]).input_direction = "Down"

\* C16: the Movement stage never puts the head on the cell the segment right
\* behind it had before the step, so the head only ever collides with a
\* segment two or more places behind it.
C16_NoReversalIntoNeck ==
  [][(MovementStep /\ HasHead /\ Len(segments) >= 2) =>
       /\ segments[1] = TheHead
       /\ position'[TheHead] # position[segments[2]]
       /\ position'[TheHead] # position[segments[1]]]_vars

\* The head has collided, and with a segment two or more places behind it.
C16_Witness ==
  /\ pc = "Eating"
  /\ HasHead
  /\ game_over_events > 0
  /\ \E i \in 3..Len(segment_positions) : segment_positions[i] = position[TheHead]
  /\ segment_positions[2] # position[TheHead]

\* C17: at the end of every tick no two segments of the chain share a cell.
C17_DistinctCells ==
  pc = "Input" =>
    \A i, j \in 1..Len(segments) :
      position[segments[i]] = position[segments[j]] => i = j

\* A tick has ended with a segment just grown and all cells distinct.
C17_Witness ==
  /\ pc = "Input"
  /\ ~did_reset
  /\ Len(segments) >= 3
  /\ Len(segments) = Len(segment_positions) + 1
  /\ Cardinality({position[e] : e \in Range(segments)}) = Len(segments)

\* C18: at the end of every tick two consecutive segments of the chain are on
\* orthogonally adjacent cells.
C18_Adjacent ==
  pc = "Input" =>
    \A i \in 1..(Len(segments) - 1) :
      Distance(position[segments[i]], position[segments[i + 1]]) = 1

\* A tick has ended with a new tail next to the tail before it, and the chain
\* bent.
C18_Witness ==
  /\ pc = "Input"
  /\ ~did_reset
  /\ Len(segments) = Len(segment_positions) + 1
  /\ Len(segments) >= 4
  /\ Distance(position[segments[Len(segments)]], position[segments[Len(segments) - 1]]) = 1
  /\ position[segments[1]].x # position[segments[Len(segments)]].x
  /\ position[segments[1]].y # position[segments[Len(segments)]].y

\* C19: at the end of every tick no food is on a segment's cell; no tick has
\* a GrowthEvent and a GameOverEvent, and no reset runs with a grown segment
\* still to spawn.
C19_FoodOffSnake ==
  /\ pc = "Input" =>
       \A f \in food : \A e \in snake_segment : position[f] # position[e]
  /\ ~(growth_events > 0 /\ game_over_events > 0)
  /\ (pc = "GameOver" /\ game_over_events > 0) =>
       /\ Reserved(commands) = {}
       /\ Range(segments) \subseteq Live

\* A tick has ended with a food alive off a snake that has grown and moved on.
C19_Witness ==
  /\ pc = "Input"
  /\ ticks >= 2
  /\ food # {}
  /\ Len(segments) >= 3
  /\ \A f \in food : \A e \in snake_segment : position[f] # position[e]

\* C14: the Growth stage appends one segment when one or more GrowthEvents
\* are pending, however many, and none when none is; its one run leaves no
\* GrowthEvent pending, so none is left for a later tick.
C14_OneGrowthPerTick ==
  [][/\ GrowthStep =>
          /\ growth_events' = 0
          /\ growth_events >= 1 =>
               /\ Len(segments') = Len(segments) + 1
               /\ \A i \in 1..Len(segments) : segments'[i] = segments[i]
               /\ Cardinality(Added) = 1
               /\ Len(commands') = Len(commands) + 1
          /\ growth_events = 0 => (segments' = segments /\ commands' = commands)
     /\ pc' # "Growth" => growth_events' = 0]_vars

\* Two foods were eaten in one tick, two GrowthEvents fired, and the Growth
\* stage has appended one segment and left no event.
C14_Witness ==
  /\ pc = "GameOver"
  /\ Len(segments) = 3
  /\ Len(commands) = 3
  /\ commands[1].op = "despawn"
  /\ commands[2].op = "despawn"
  /\ commands[3] = SpawnCmd(segments[3], "segment", Pos(3, 2))
  /\ growth_events = 0

\* A run of food_spawner ends: its loop breaks and the food is spawned.
SpawnStep == pc = "FoodSpawner" /\ pc' = "Input"

\* C15: food_spawner creates one food, inside the arena, on a cell that no
\* food and no segment is on when it is created, and moves nothing else.
C15_FoodOnFreeCell ==
  [][IF SpawnStep
     THEN \E e \in food' \ food :
            /\ food' = food \cup {e}
            /\ e \notin Live
            /\ DOMAIN position' = Live \cup {e}
            /\ InArena(position'[e])
            /\ \A x \in food \cup snake_segment : position[x] # position'[e]
            /\ \A x \in Live : position'[x] = position[x]
            /\ snake_segment' = snake_segment
     ELSE food' = food /\ position' = position]_vars

\* Foods were spawned on (2,2) and then on (4,2), past the segment on (3,2),
\* with food already in the arena.
C15_Witness ==
  /\ pc = "Input"
  /\ \E f, g \in food :
       /\ position[f] = Pos(2, 2)
       /\ position[g] = Pos(4, 2)
       /\ g = f + 1
  /\ \E e \in snake_segment : position[e] = Pos(3, 2)

\* C20: while a cell is free the loop of food_spawner ends, and it ends with
\* one more food and one free cell less; with no cell free it never ends; and
\* invoked again and again with no tick in between, the spawner fills the
\* arena and is then in its loop for good.
C20_SpawnerTermination ==
  /\ []((pc = "FoodSpawner" /\ FreeCells # {}) => <>(pc = "Input"))
  /\ [][SpawnStep =>
          /\ Cardinality(food') = Cardinality(food) + 1
          /\ Cardinality(FreeCells') = Cardinality(FreeCells) - 1]_vars
  /\ [][(pc = "FoodSpawner" /\ FreeCells = {}) => (pc' = "FoodSpawner" /\ food' = food)]_vars
  /\ <>[](pc = "FoodSpawner" /\ FreeCells = {})

\* The arena is full, 98 foods and the two segments, and food_spawner is in
\* its loop.
C20_Witness ==
  /\ pc = "FoodSpawner"
  /\ FreeCells = {}
  /\ Cardinality(food) = ARENA_WIDTH * ARENA_HEIGHT - Len(segments)
  /\ \A c \in Cells : retry(c)

====
